---- MODULE Spec2Model ----
(***************************************************************************)
(* FoxServer: a chainable facade over an express application and a Node    *)
(* http.Server.  The model keeps the facade's fields (host, port, app,     *)
(* server), the promises handed out by start(), the listener's pending     *)
(* work (host lookups, process.nextTick queue), the logger's debug lines   *)
(* and a trace of what start() and its callback do, in program order.      *)
(***************************************************************************)
EXTENDS Integers, Sequences, FiniteSets, TLC

\* Bounds of the model: number of "use" calls and of start() calls.
MaxUse == 2
MaxStart == 2

FOX_SERVER_DEFAULT_PORT == 8081

(***************************************************************************)
(* JavaScript values, tagged with their typeof.                            *)
(***************************************************************************)
Undefined == [type |-> "undefined"]
Null == [type |-> "null"]
Str(s) == [type |-> "string", val |-> s]
Num(n) == [type |-> "number", val |-> n]
Obj(r) == [type |-> "object", val |-> r]
Err(code) == [type |-> "error", val |-> code]

\* The identity of the facade (`this`).
This == [type |-> "ref", val |-> "FoxServer"]

\* Log texts.  The two info messages are Russian literals in the source
\* ("Запуск сервера..." / "Сервер запущен: http://host:port"); they are
\* written here in transliteration.
BannerText == "FOX SERVER"
StartingText == "Zapusk servera..."
ServingText == "Server zapushchen: http://"

(***************************************************************************)
(* Inputs.                                                                 *)
(***************************************************************************)
\* new FoxServer(), ({port: 0}), ({host, port}) with a wildcard and with a
\* loopback host.
PropsIn ==
    { [host |-> Undefined, port |-> Undefined],
      [host |-> Undefined, port |-> Num(0)],
      [host |-> Str("0.0.0.0"), port |-> Num(3000)],
      [host |-> Str("127.0.0.1"), port |-> Num(0)] }

\* Ports the operating system may assign when port 0 is requested.
EphemeralPorts == {49152, 49153}

FileUploadOptionsIn == {Undefined, Obj([limits |-> [fileSize |-> 1024]])}
CorsOptionsIn == {Obj([origin |-> "*"])}
CookieSecretsIn == {Str("k")}
UrlencodedOptionsIn == {Undefined, Obj([extended |-> FALSE])}
JsonOptionsIn == {Obj([strict |-> FALSE])}
MethodOverrideGettersIn == {Str("_method")}
SessionOptionsIn ==
    { Str("s1"),
      Obj([secret |-> "s1", resave |-> TRUE, saveUninitialized |-> TRUE]),
      Obj([secret |-> "s1", resave |-> FALSE, saveUninitialized |-> FALSE]) }

VARIABLES
    props,      \* the constructor's argument
    host,       \* this.host
    port,       \* this.port
    app,        \* this.app: the express pipeline and its settings
    server,     \* this.server: the http.Server
    nextTick,   \* events the listener queued with process.nextTick
    promises,   \* the promises returned by start(), in call order
    trace,      \* effects of start() and of its callback, in program order:
                \* console.log, logger.info, listen(), resolve()
    debugLog,   \* the logger's debug lines, one per "use" call, in order
    calls,      \* history: the "use" calls made, with arguments and result
    binds,      \* history: number of unbound -> bound transitions
    failed,     \* history: promises whose listen() ended in a bind error
    process     \* "running", or "crashed" after an unhandled 'error' event

vars == <<props, host, port, app, server, nextTick, promises, trace,
          debugLog, calls, binds, failed, process>>

(***************************************************************************)
(* constructor                                                             *)
(***************************************************************************)
\* props.port ?? FOX_SERVER_DEFAULT_PORT
PortOrDefaultFalsy(p) ==
    IF p.type \in {"undefined", "null"} \/ (p.type = "number" /\ p.val = 0)
    THEN FOX_SERVER_DEFAULT_PORT ELSE p.val

PortOrDefault(p) ==
    IF p.type \in {"undefined", "null"} THEN FOX_SERVER_DEFAULT_PORT ELSE p.val

\* express(): an empty pipeline and no view settings.
NewApp == [stack |-> <<>>, settings |-> [views |-> Undefined, viewEngine |-> Undefined]]

\* http.createServer(app): no handle (address() is null), no 'listening'
\* callbacks, no lookup in flight.
NewServer == [address |-> Null, onceListening |-> <<>>, lookups |-> <<>>]

Init ==
    /\ props \in PropsIn
    /\ host = props.host
    /\ port = PortOrDefault(props.port)
    /\ app = NewApp
    /\ server = NewServer
    /\ nextTick = <<>>
    /\ promises = <<>>
    /\ trace = <<>>
    /\ debugLog = <<>>
    /\ calls = <<>>
    /\ binds = 0
    /\ failed = {}
    /\ process = "running"

(***************************************************************************)
(* Accessors                                                               *)
(***************************************************************************)
getExpressApp == app

getHttpServerFresh == NewServer

getHttpServer == server

\* address && typeof address !== 'string' ? address.port : this.port
getPort ==
    LET address == getHttpServer.address
    IN  IF address.type = "object" THEN address.val.port ELSE port

getHost ==
    LET address == getHttpServer.address
    IN  IF address.type = "object"
        THEN IF address.val.address = "::" THEN Str("localhost")
             ELSE Str(address.val.address)
        ELSE host

(***************************************************************************)
(* "use" methods                                                           *)
(***************************************************************************)
Debug(text) == [op |-> "logger.debug", text |-> text]
Info(text) == [op |-> "logger.info", text |-> text]

CanUse == process = "running" /\ Len(calls) < MaxUse

Called(method, args) == Append(calls, [method |-> method, args |-> args, ret |-> This])

\* app.use(path, handler): the handler goes to the end of the pipeline.
appUseFront(path, handler) ==
    [getExpressApp EXCEPT !.stack = <<[path |-> path, handle |-> handler]>> \o @]

appUseTwice(path, handler) ==
    [getExpressApp EXCEPT !.stack = @ \o <<[path |-> path, handle |-> handler],
                                           [path |-> path, handle |-> handler]>>]

appUse(path, handler) ==
    [getExpressApp EXCEPT !.stack = Append(@, [path |-> path, handle |-> handler])]

\* app.set(name, value)
appSet(a, name, value) ==
    [a EXCEPT !.settings = [@ EXCEPT ![name] = value]]

Middleware(factory, args) == [factory |-> factory, args |-> args]

NotApp == <<props, host, port, server, nextTick, promises, trace, binds, failed, process>>

\* options ?? { limits: { fileSize: 50 * 1024 * 1024 } }
fileUploadOptionsAlways(options) ==
    Obj([limits |-> [fileSize |-> 50 * 1024 * 1024]])

fileUploadOptions(options) ==
    IF options.type \in {"undefined", "null"}
    THEN Obj([limits |-> [fileSize |-> 50 * 1024 * 1024]])
    ELSE options

useFilesUpload ==
    /\ CanUse
    /\ \E options \in FileUploadOptionsIn :
        /\ app' = appUse("/", Middleware("fileUpload", <<fileUploadOptions(options)>>))
        /\ debugLog' = Append(debugLog, Debug("USE: file upload"))
        /\ calls' = Called("useFilesUpload", <<options>>)
    /\ UNCHANGED NotApp

useCors ==
    /\ CanUse
    /\ \E options \in CorsOptionsIn :
        /\ app' = appUse("/", Middleware("cors", <<options>>))
        /\ debugLog' = Append(debugLog, Debug("USE: cors"))
        /\ calls' = Called("useCors", <<options>>)
    /\ UNCHANGED NotApp

useCookieParser ==
    /\ CanUse
    /\ \E secret \in CookieSecretsIn, options \in {Undefined} :
        /\ app' = appUse("/", Middleware("cookieParser", <<secret, options>>))
        /\ debugLog' = Append(debugLog, Debug("USE: cookie parser"))
        /\ calls' = Called("useCookieParser", <<secret, options>>)
    /\ UNCHANGED NotApp

\* options ?? { extended: true }
urlencodedOptions(options) ==
    IF options.type \in {"undefined", "null"}
    THEN Obj([extended |-> TRUE])
    ELSE options

useBodyParserURLEncode ==
    /\ CanUse
    /\ \E options \in UrlencodedOptionsIn :
        /\ app' = appUse("/", Middleware("bodyParser.urlencoded", <<urlencodedOptions(options)>>))
        /\ debugLog' = Append(debugLog, Debug("USE: body parser - urlencode"))
        /\ calls' = Called("useBodyParserURLEncode", <<options>>)
    /\ UNCHANGED NotApp

useBodyParserJSON ==
    /\ CanUse
    /\ \E options \in JsonOptionsIn :
        /\ app' = appUse("/", Middleware("bodyParser.json", <<options>>))
        /\ debugLog' = Append(debugLog, Debug("USE: body parser - json"))
        /\ calls' = Called("useBodyParserJSON", <<options>>)
    /\ UNCHANGED NotApp

\* app.set('views', path); app.set('view engine', engine): no middleware.
useRenderEngine ==
    /\ CanUse
    /\ \E engine \in {"pug"}, path \in {"./views"} :
        /\ app' = appSet(appSet(getExpressApp, "views", Str(path)),
                         "viewEngine", Str(engine))
        /\ debugLog' = Append(debugLog, Debug("USE: render engine"))
        /\ calls' = Called("useRenderEngine", <<Str(engine), Str(path)>>)
    /\ UNCHANGED NotApp

useMethodOverride ==
    /\ CanUse
    /\ \E getter \in MethodOverrideGettersIn, options \in {Undefined} :
        /\ app' = appUse("/", Middleware("methodOverride", <<getter, options>>))
        /\ debugLog' = Append(debugLog, Debug("USE: method override"))
        /\ calls' = Called("useMethodOverride", <<getter, options>>)
    /\ UNCHANGED NotApp

\* typeof options === 'string'
\*     ? { secret: options, resave: true, saveUninitialized: true } : options
sessionOptionsNoResave(options) ==
    IF options.type = "string"
    THEN Obj([secret |-> options.val, resave |-> FALSE, saveUninitialized |-> TRUE])
    ELSE options

sessionOptions(options) ==
    IF options.type = "string"
    THEN Obj([secret |-> options.val, resave |-> TRUE, saveUninitialized |-> TRUE])
    ELSE options

useSession ==
    /\ CanUse
    /\ \E options \in SessionOptionsIn :
        /\ app' = appUse("/", Middleware("session", <<sessionOptions(options)>>))
        /\ debugLog' = Append(debugLog, Debug("USE: session"))
        /\ calls' = Called("useSession", <<options>>)
    /\ UNCHANGED NotApp

useStatic ==
    /\ CanUse
    /\ \E url \in {"/public"}, path \in {"./public"} :
        /\ app' = appUse(url, Middleware("express.static", <<Str(path)>>))
        /\ debugLog' = Append(debugLog, Debug("USE: static"))
        /\ calls' = Called("useStatic", <<Str(url), Str(path)>>)
    /\ UNCHANGED NotApp

Use ==
    \/ useFilesUpload
    \/ useCors
    \/ useCookieParser
    \/ useBodyParserURLEncode
    \/ useBodyParserJSON
    \/ useRenderEngine
    \/ useMethodOverride
    \/ useSession
    \/ useStatic

(***************************************************************************)
(* start() and the listener                                                *)
(***************************************************************************)
CanStart == process = "running" /\ Len(promises) < MaxStart

Pending == [state |-> "pending", value |-> Undefined]
Settled(state, value) == [state |-> state, value |-> value]

\* What http.Server.address() returns once the handle is bound.
BoundAddress(a, n) ==
    Obj([address |-> a, family |-> IF a = "::" THEN "IPv6" ELSE "IPv4", port |-> n])

\* listen({port, host}): with no host the listener binds the unspecified
\* IPv6 address, or the unspecified IPv4 address when IPv6 is not available;
\* port 0 asks the operating system for a port.
BindAddresses == IF host.type = "string" THEN {host.val} ELSE {"::", "0.0.0.0"}
BindPorts == IF port = 0 THEN EphemeralPorts ELSE {port}

\* The listener binds its handle for the listen() call of promise p: either
\* the bind succeeds and 'listening' is queued, or it fails (EADDRINUSE,
\* EACCES, ...) and 'error' is queued; the handle stays absent.
Bind(srv, p) ==
    \/ \E a \in BindAddresses, n \in BindPorts :
        /\ server' = [srv EXCEPT !.address = BoundAddress(a, n)]
        /\ nextTick' = Append(nextTick, "listening")
        /\ binds' = binds + 1
        /\ failed' = failed
    \/ /\ server' = srv
       /\ nextTick' = Append(nextTick, "error")
       /\ binds' = binds
       /\ failed' = failed \cup {p}

\* The callback given to listen(): log the resolved address, resolve(this).
ServingLog == [op |-> "logger.info", text |-> ServingText,
               host |-> getHost, port |-> getPort]
ResolveEffect(p, value) == [op |-> "resolve", promise |-> p, value |-> value]

listenCallbackResolveFirst(st, p) ==
    [trace |-> st.trace \o <<ResolveEffect(p, This), ServingLog>>,
     promises |-> [st.promises EXCEPT ![p] =
                      IF @.state = "pending" THEN Settled("fulfilled", This) ELSE @]]

listenCallback(st, p) ==
    [trace |-> st.trace \o <<ServingLog, ResolveEffect(p, This)>>,
     promises |-> [st.promises EXCEPT ![p] =
                      IF @.state = "pending" THEN Settled("fulfilled", This) ELSE @]]

\* emit('listening'): the callbacks registered with once() run in
\* registration order.
RECURSIVE RunCallbacks(_, _)
RunCallbacks(st, ps) ==
    IF ps = <<>> THEN st
    ELSE RunCallbacks(listenCallback(st, Head(ps)), Tail(ps))

\* start(): banner, "starting" log, new Promise(executor); the executor
\* calls listen().  listen() throws ERR_SERVER_ALREADY_LISTEN when the
\* server has a handle, which rejects the promise; otherwise it registers
\* the callback with once('listening') and binds: at once when no host is
\* given, after the host's lookup otherwise.
start ==
    /\ CanStart
    /\ LET p == Len(promises) + 1
           srv == getHttpServer
           registered == [srv EXCEPT !.onceListening = Append(@, p)]
       IN
        /\ trace' = trace \o << [op |-> "console.log", text |-> BannerText],
                                Info(StartingText),
                                [op |-> "listen", port |-> port, host |-> host] >>
        /\ \/ /\ srv.address.type = "object"
              /\ promises' = Append(promises,
                                Settled("rejected", Err("ERR_SERVER_ALREADY_LISTEN")))
              /\ UNCHANGED <<server, nextTick, binds, failed>>
           \/ /\ srv.address.type # "object"
              /\ host.type # "string"
              /\ promises' = Append(promises, Pending)
              /\ Bind(registered, p)
           \/ /\ srv.address.type # "object"
              /\ host.type = "string"
              /\ promises' = Append(promises, Pending)
              /\ server' = [registered EXCEPT !.lookups = Append(@, p)]
              /\ UNCHANGED <<nextTick, binds, failed>>
    /\ UNCHANGED <<props, host, port, app, debugLog, calls, process>>

\* The lookup of a listen() call completes.  When an earlier listen() has
\* bound the handle meanwhile, the handle is kept and nothing is bound anew.
LookupDone ==
    /\ process = "running"
    /\ server.lookups # <<>>
    /\ LET p == Head(server.lookups)
           srv == [server EXCEPT !.lookups = Tail(@)]
       IN  \/ /\ srv.address.type = "object"
              /\ server' = srv
              /\ UNCHANGED <<nextTick, binds, failed>>
           \/ /\ srv.address.type # "object"
              /\ Bind(srv, p)
    /\ UNCHANGED <<props, host, port, app, promises, trace, debugLog, calls, process>>

\* process.nextTick delivers 'listening': every once('listening') callback
\* runs and the list is emptied.
EmitListening ==
    /\ process = "running"
    /\ nextTick # <<>>
    /\ Head(nextTick) = "listening"
    /\ LET st == RunCallbacks([trace |-> trace, promises |-> promises],
                              server.onceListening)
       IN  /\ trace' = st.trace
           /\ promises' = st.promises
    /\ server' = [server EXCEPT !.onceListening = <<>>]
    /\ nextTick' = Tail(nextTick)
    /\ UNCHANGED <<props, host, port, app, debugLog, calls, binds, failed, process>>

EmitErrorRejects ==
    /\ process = "running"
    /\ nextTick # <<>>
    /\ Head(nextTick) = "error"
    /\ nextTick' = Tail(nextTick)
    /\ process' = "running"
    /\ promises' = [p \in DOMAIN promises |->
                       IF p \in failed /\ promises[p].state = "pending"
                       THEN Settled("rejected", Err("EADDRINUSE"))
                       ELSE promises[p]]
    /\ UNCHANGED <<props, host, port, app, server, trace, debugLog, calls,
                   binds, failed>>

\* process.nextTick delivers 'error'.  The facade registers no 'error'
\* listener: the event is taken by a listener the caller put on
\* getHttpServer(), or it is unhandled and ends the process.
EmitError ==
    /\ process = "running"
    /\ nextTick # <<>>
    /\ Head(nextTick) = "error"
    /\ nextTick' = Tail(nextTick)
    /\ process' \in {"running", "crashed"}
    /\ UNCHANGED <<props, host, port, app, server, promises, trace, debugLog,
                   calls, binds, failed>>

Next ==
    \/ Use
    \/ start
    \/ LookupDone
    \/ EmitListening
    \/ EmitError

Spec == Init /\ [][Next]_vars

(***************************************************************************)
(* Properties                                                              *)
(***************************************************************************)
Bound == server.address.type = "object"

\* The middleware factory each registering "use" method calls.
FactoryOf(method) ==
    CASE method = "useFilesUpload" -> "fileUpload"
      [] method = "useCors" -> "cors"
      [] method = "useCookieParser" -> "cookieParser"
      [] method = "useBodyParserURLEncode" -> "bodyParser.urlencoded"
      [] method = "useBodyParserJSON" -> "bodyParser.json"
      [] method = "useMethodOverride" -> "methodOverride"
      [] method = "useSession" -> "session"
      [] method = "useStatic" -> "express.static"
      [] OTHER -> "none"

IsRegistering(c) == c.method # "useRenderEngine"
Registering == SelectSeq(calls, IsRegistering)

IsServingLog(e) == e.op = "logger.info" /\ e.text = ServingText
Listens == {i \in 1..Len(trace) : trace[i].op = "listen"}

\* C1: after any sequence of the eight registering "use" calls, every call
\* returned the facade itself and the pipeline holds one middleware per
\* call, in the order the calls were made.
C1_RegistrationOrder ==
    LET reg == Registering
    IN  /\ \A i \in 1..Len(calls) : calls[i].ret = This
        /\ Len(app.stack) = Len(reg)
        /\ \A i \in 1..Len(reg) :
              app.stack[i].handle.factory = FactoryOf(reg[i].method)

C1_Witness ==
    /\ Len(app.stack) >= 2
    /\ app.stack[1].handle.factory = "bodyParser.json"
    /\ app.stack[2].handle.factory = "cookieParser"

\* C2 as claimed: every "use" call, useRenderEngine included, makes the
\* pipeline one middleware longer.
C2_EveryUseRegistersOne ==
    [][calls' # calls => Len(app'.stack) = Len(app.stack) + 1]_vars

\* C2 as amended: every "use" call but useRenderEngine appends exactly one
\* middleware and leaves the settings alone; useRenderEngine leaves the
\* pipeline alone and sets 'views' and 'view engine'.
C2_UseRegistersOneButRenderEngine ==
    [][calls' # calls =>
        LET c == calls'[Len(calls')]
        IN  IF c.method = "useRenderEngine"
            THEN /\ app'.stack = app.stack
                 /\ app'.settings = [views |-> c.args[2], viewEngine |-> c.args[1]]
            ELSE /\ Len(app'.stack) = Len(app.stack) + 1
                 /\ SubSeq(app'.stack, 1, Len(app.stack)) = app.stack
                 /\ app'.settings = app.settings]_vars

C2_Witness ==
    /\ Len(calls) = 2
    /\ calls[1].method = "useCors"
    /\ calls[2].method = "useRenderEngine"
    /\ Len(app.stack) = 1
    /\ app.settings.viewEngine = Str("pug")

\* C3: start() prints the banner, logs "starting", then calls listen(); the
\* "serving" line is logged with the bound address and is directly followed
\* by the resolution of the promise; a fulfilled promise implies a bound
\* listener and carries the facade itself.
C3_StartOrder ==
    /\ \A p \in 1..Len(promises) :
          promises[p].state = "fulfilled" =>
             /\ Bound
             /\ promises[p].value = This
             /\ \E i \in 1..Len(trace) :
                   trace[i].op = "resolve" /\ trace[i].promise = p
    /\ Cardinality(Listens) = Len(promises)
    /\ \A i \in 1..Len(trace) :
          /\ trace[i].op = "listen" =>
                /\ i >= 3
                /\ trace[i - 1] = Info(StartingText)
                /\ trace[i - 2] = [op |-> "console.log", text |-> BannerText]
                /\ trace[i].port = port /\ trace[i].host = host
          /\ trace[i].op = "resolve" =>
                /\ Bound
                /\ i >= 2
                /\ IsServingLog(trace[i - 1])
                /\ trace[i - 1].port = server.address.val.port
                /\ trace[i].value = This
                /\ promises[trace[i].promise].state = "fulfilled"
                /\ Cardinality({j \in Listens : j < i}) >= trace[i].promise
          /\ IsServingLog(trace[i]) =>
                i < Len(trace) /\ trace[i + 1].op = "resolve"

C3_Witness ==
    /\ Len(promises) >= 1
    /\ promises[1].state = "fulfilled"
    /\ Len(trace) = 5

\* C4: while the listener is unbound getPort() is the configured port (8081
\* when none was given) and getHost() the configured host; once bound,
\* getPort() is the socket's port: an operating-system port when 0 was
\* configured, the configured port otherwise.
C4_PortBeforeAndAfterBind ==
    LET given == props.port.type = "number"
        configured == IF given THEN props.port.val ELSE 8081
    IN  /\ ~Bound => getPort = configured /\ getHost = props.host
        /\ Bound =>
              /\ getPort = server.address.val.port
              /\ IF configured = 0 THEN getPort \in EphemeralPorts
                 ELSE getPort = configured

C4_Witness ==
    /\ Bound
    /\ props.port = Num(0)
    /\ getPort \in EphemeralPorts
    /\ Len(calls) >= 1
    /\ \E p \in 1..Len(promises) : promises[p].state = "fulfilled"

\* C5: bound to a wildcard address ('::' or '0.0.0.0') getHost() is
\* 'localhost'; bound to any other address it is that address.
C5_WildcardIsLocalhost ==
    Bound =>
        LET a == server.address.val.address
        IN  IF a \in {"::", "0.0.0.0"} THEN getHost = Str("localhost")
            ELSE getHost = Str(a)

\* C6: useSession(s) with a string s registers what useSession({secret: s,
\* resave: true, saveUninitialized: true}) registers; an options record is
\* forwarded as it is.
C6_SessionSecretString ==
    LET reg == Registering
    IN  \A i \in 1..Len(reg) :
        reg[i].method = "useSession" =>
            LET options == reg[i].args[1]
                handle == app.stack[i].handle
            IN  /\ handle.factory = "session"
                /\ options.type = "object" => handle.args = <<options>>
                /\ options.type = "string" =>
                      /\ handle.args = << Obj([secret |-> options.val, resave |-> TRUE,
                                               saveUninitialized |-> TRUE]) >>
                      /\ \A j \in 1..Len(reg) :
                            /\ reg[j].method = "useSession"
                            /\ reg[j].args[1] =
                                  Obj([secret |-> options.val, resave |-> TRUE,
                                       saveUninitialized |-> TRUE])
                            => app.stack[j].handle = handle

C6_Witness ==
    /\ Len(calls) = 2
    /\ calls[1].method = "useSession" /\ calls[1].args[1] = Str("s1")
    /\ calls[2].method = "useSession"
    /\ calls[2].args[1] = Obj([secret |-> "s1", resave |-> TRUE, saveUninitialized |-> TRUE])
    /\ Len(app.stack) = 2

\* C7: the listener goes from unbound to bound at most once, however often
\* start() is called; it is bound exactly when that one bind has happened.
C7_BoundAtMostOnce ==
    /\ binds <= 1
    /\ Bound <=> binds = 1

C7_Witness ==
    /\ Len(promises) >= 2
    /\ binds = 1
    /\ \E p \in 1..Len(promises) : promises[p].state = "rejected"

\* C8: the lifecycle constructed -> configuring -> starting -> listening
\* never steps back.
Phase ==
    CASE Bound -> 3                   \* listening
      [] Len(promises) > 0 -> 2       \* starting: start() was invoked
      [] Len(calls) > 0 -> 1          \* configuring
      [] OTHER -> 0                   \* constructed

C10_FailedBindNeverSettles ==
    failed # {} =>
        /\ \A p \in failed : promises[p].state = "pending"
        /\ \A i \in 1..Len(trace) : ~IsServingLog(trace[i])

\* C10 as amended: a failed bind is not retried and does not settle the
\* promise: the promise is never rejected and stays pending, with no
\* "serving" line logged, for as long as the listener is unbound.  Only a
\* later start() whose bind succeeds fulfils it.
C10_FailedBindLeavesPending ==
    /\ Cardinality(Listens) = Len(promises)
    /\ \A p \in failed :
          /\ promises[p].state # "rejected"
          /\ ~Bound => promises[p].state = "pending"
          /\ promises[p].state = "fulfilled" =>
                \E q \in (p + 1)..Len(promises) : q \notin failed
    /\ ~Bound => \A i \in 1..Len(trace) : ~IsServingLog(trace[i])

C10_Witness ==
    /\ failed = {1}
    /\ promises[1].state = "pending"
    /\ nextTick = <<>>
    /\ process = "running"
    /\ ~Bound
====
